---- MODULE Spec2Model ----
(***************************************************************************)
(* SkillSync: the database tables with their constraints and row-level     *)
(* security policies, the pages' handlers that write them, and the edge    *)
(* functions that send e-mail.                                             *)
(***************************************************************************)
EXTENDS Integers, Sequences, FiniteSets, TLC

(* ------------------------------ bounds --------------------------------- *)
NumUsers == 2
MaxSessions == 2
NumSlots == 1
MaxDay == 0
MaxMessages == 2
MaxReviews == 2
Slack == 1

(* --------------------------- value domains ----------------------------- *)
\* auth.uid() of a request that carries no user JWT, and a null uuid / e-mail
NoUser == 0
Users == 1..NumUsers
\* SQL NULL / JS null or undefined for text columns
NULL == "null"
Skills == {"chess", "piano"}
\* the room URL create-whereby-meeting answers with
RoomUrl == "room"
\* useState<Date>() before a day is picked
NoDate == -1
Days == 0..MaxDay
\* timeSlots: '09:00', '10:00', ... as <<hours, minutes>>; '' is <<>>
FirstHour == 9
TimeSlots == {<<FirstHour + k, 0>> : k \in 0..(NumSlots - 1)}
NoTime == <<>>
MinutesPerDay == 1440
\* new Date(selectedDate) with setHours(hours, minutes, 0, 0), in minutes
ScheduledAt(date, slot) == date * MinutesPerDay + slot[1] * 60 + slot[2]

VARIABLES
    users,          \* auth.users: the ids of the signed-up users
    profiles,       \* public.profiles: id -> row
    sessions,       \* public.sessions: sequence of rows, id = index
    reviews,        \* public.reviews: set of rows
    conversations,  \* public.conversations: set of rows
    messages,       \* public.messages: sequence of rows
    device_tokens,  \* public.device_tokens: set of rows
    schedule,       \* the Schedule page: its user and its `sessions` state
    matchList,      \* the Match page: its user and its `profiles` state
    chat,           \* the ChatDialog: its user, its props and its `messages` state
    last            \* the request just served and its outcome

vars == <<users, profiles, sessions, reviews, conversations, messages,
          device_tokens, schedule, matchList, chat, last>>

db == <<users, profiles, sessions, reviews, conversations, messages, device_tokens>>

EmptyMap == [x \in {} |-> NULL]
\* conversationId={null}
NoConversation == <<>>

Init ==
    /\ users = {}
    /\ profiles = EmptyMap
    /\ sessions = <<>>
    /\ reviews = {}
    /\ conversations = {}
    /\ messages = <<>>
    /\ device_tokens = {}
    /\ schedule = [user |-> NoUser, sessions |-> EmptyMap, sessionToReview |-> 0]
    /\ matchList = [user |-> NoUser, profiles |-> EmptyMap]
    /\ chat = [user |-> NoUser, other |-> NoUser, conversationId |-> NoConversation,
               since |-> 0, messages |-> <<>>]
    /\ last = [op |-> "init"]

(* ------------------------------ profiles ------------------------------- *)
\* handle_new_user(): the profile row a sign-up creates; d is the column default
\* of the three notification switches (Profile reads each with `?? true`, so a
\* row holds NULL or true before its first save)
NewProfile(u, email, d) ==
    [id |-> u, email |-> email, profile_completed |-> FALSE,
     skills_to_teach |-> {}, skills_to_learn |-> {},
     session_notification_enabled |-> d,
     session_reminder_enabled |-> d,
     email_digest_enabled |-> d]

\* INSERT INTO auth.users, with the on_auth_user_created trigger
SignUp(u, email, d) ==
    /\ u \notin users
    /\ users' = users \cup {u}
    /\ profiles' = [x \in DOMAIN profiles \cup {u} |->
                      IF x = u THEN NewProfile(u, email, d) ELSE profiles[x]]
    /\ last' = [op |-> "sign_up", user |-> u]
    /\ UNCHANGED <<sessions, reviews, conversations, messages, device_tokens,
                   schedule, matchList, chat>>

Bool3(b) == IF b THEN "true" ELSE "false"

\* Profile.handleSubmit: validation, then the update of the user's own row
SaveProfile(u, teach, learn, notif, reminder, digest) ==
    /\ u \in users
    /\ IF teach = {} /\ learn = {}
       THEN /\ profiles' = profiles
            /\ last' = [op |-> "save_profile", user |-> u, ok |-> FALSE]
       ELSE /\ profiles' = [profiles EXCEPT ![u] =
                              [@ EXCEPT !.skills_to_teach = teach,
                                        !.skills_to_learn = learn,
                                        !.email_digest_enabled = Bool3(digest),
                                        !.session_reminder_enabled = Bool3(reminder),
                                        !.session_notification_enabled = Bool3(notif),
                                        !.profile_completed = TRUE]]
            /\ last' = [op |-> "save_profile", user |-> u, ok |-> TRUE]
    /\ UNCHANGED <<users, sessions, reviews, conversations, messages,
                   device_tokens, schedule, matchList, chat>>

\* a SELECT policy that shows every profile to any signed-in user
ProfilesSelectPolicyAnyRow(uid, p) == uid # NoUser
\* RLS on profiles for SELECT: own row, or any completed row when signed in
ProfilesSelectPolicy(uid, p) ==
    \/ (uid # NoUser /\ uid = p.id)
    \/ (p.profile_completed /\ uid # NoUser)

\* Match.fetchProfiles: completed profiles other than the user's own
FetchedProfiles(u) ==
    {p \in DOMAIN profiles :
        /\ ProfilesSelectPolicy(u, profiles[p])
        /\ profiles[p].profile_completed
        /\ p # u}

\* the Match page mounted for the signed-in user u: useEffect -> fetchProfiles
FetchProfiles(u) ==
    /\ u \in users
    /\ matchList' = [user |-> u,
                     profiles |-> [p \in FetchedProfiles(u) |->
                                     [skills_to_teach |-> profiles[p].skills_to_teach,
                                      skills_to_learn |-> profiles[p].skills_to_learn]]]
    /\ last' = [op |-> "fetch_profiles", user |-> u]
    /\ UNCHANGED db
    /\ UNCHANGED <<schedule, chat>>

\* a client's own SELECT * FROM profiles through the database API
DbSelectProfiles(uid) ==
    /\ uid = NoUser \/ uid \in users
    /\ last' = [op |-> "select_profiles", uid |-> uid,
                rows |-> {p \in DOMAIN profiles : ProfilesSelectPolicy(uid, profiles[p])}]
    /\ UNCHANGED db
    /\ UNCHANGED <<schedule, matchList, chat>>

(* ------------------------------ sessions ------------------------------- *)
\* CONSTRAINT valid_status
ValidStatuses == {"pending", "confirmed", "cancelled", "completed"}
\* a CHECK that also admits 'declined'
ValidStatusWithDeclined(status) == status \in {"pending", "confirmed", "cancelled", "completed", "declined"}
ValidStatus(status) == status \in ValidStatuses
\* every status value a client sends
Statuses == ValidStatuses \cup {"declined"}

\* an INSERT policy that asks only for a signed-in user
SessionsInsertPolicyAnyLearner(uid, row) == uid # NoUser
\* RLS on sessions for INSERT: "Users can create sessions as learner"
SessionsInsertPolicy(uid, row) == uid # NoUser /\ uid = row.learner_id

\* RLS on sessions for SELECT and for UPDATE
SessionsOwnPolicy(uid, row) ==
    uid # NoUser /\ (uid = row.teacher_id \/ uid = row.learner_id)

\* whether the database accepts INSERT INTO sessions of `row` from `uid`
SessionInsertOk(uid, row) ==
    /\ SessionsInsertPolicy(uid, row)
    /\ ValidStatus(row.status)
    /\ row.skill # NULL

\* BookSessionDialog.handleBookSession's check of the required fields
BookingFieldsMissing(date, slot, skill) ==
    date = NoDate \/ slot = NoTime \/ skill = ""

\* the row handleBookSession inserts
BookingRow(u, t, date, slot, skill) ==
    [teacher_id |-> t, learner_id |-> u, skill |-> skill,
     scheduled_at |-> ScheduledAt(date, slot),
     status |-> "pending", meeting_link |-> NULL]

\* BookSessionDialog.handleBookSession, in the dialog the Match page renders for
\* a fetched profile t that has skills to teach
BookSession(u, t, date, slot, skill) ==
    /\ u = matchList.user
    /\ u \in users
    /\ t \in DOMAIN matchList.profiles
    /\ matchList.profiles[t].skills_to_teach # {}
    /\ skill \in matchList.profiles[t].skills_to_teach \cup {""}
    /\ Len(sessions) < MaxSessions
    /\ IF BookingFieldsMissing(date, slot, skill)
       THEN /\ sessions' = sessions
            /\ last' = [op |-> "book", user |-> u, teacher |-> t, skill |-> skill,
                        date |-> date, slot |-> slot, count |-> Len(sessions),
                        toast |-> "Please fill in all required fields",
                        inserted |-> FALSE]
       ELSE LET row == BookingRow(u, t, date, slot, skill) IN
            IF SessionInsertOk(u, row)
            THEN /\ sessions' = Append(sessions, row)
                 /\ last' = [op |-> "book", user |-> u, teacher |-> t, skill |-> skill,
                        date |-> date, slot |-> slot, count |-> Len(sessions),
                                  toast |-> "Session requested successfully!",
                             inserted |-> TRUE]
            ELSE /\ sessions' = sessions
                 /\ last' = [op |-> "book", user |-> u, teacher |-> t, skill |-> skill,
                        date |-> date, slot |-> slot, count |-> Len(sessions),
                                  toast |-> "Failed to book session",
                             inserted |-> FALSE]
    /\ UNCHANGED <<users, profiles, reviews, conversations, messages,
                   device_tokens, schedule, matchList, chat>>

\* a request through the database API carries no JWT, or the JWT of a user
Requester(uid) == uid = NoUser \/ uid \in users

\* a client's own INSERT INTO sessions through the database API
DbInsertSession(uid, row) ==
    /\ Requester(uid)
    /\ Len(sessions) < MaxSessions
    /\ IF SessionInsertOk(uid, row)
       THEN /\ sessions' = Append(sessions, row)
            /\ last' = [op |-> "insert_session", uid |-> uid, row |-> row,
                        count |-> Len(sessions), ok |-> TRUE]
       ELSE /\ sessions' = sessions
            /\ last' = [op |-> "insert_session", uid |-> uid, row |-> row,
                        count |-> Len(sessions), ok |-> FALSE]
    /\ UNCHANGED <<users, profiles, reviews, conversations, messages,
                   device_tokens, schedule, matchList, chat>>

(* --------------------- send-session-notification ----------------------- *)
\* .from('profiles').select(...).eq('id', id).single(): the row, or no data
ProfileOf(ps, id) == IF id \in DOMAIN ps THEN ps[id] ELSE [id |-> NoUser]

\* a recipient test that ignores the Session Confirmations switch
WantsNotificationIgnoringSwitch(p) == p.id # NoUser /\ p.email # NoUser
\* `p?.email && p?.session_notification_enabled !== false`
WantsNotification(p) ==
    /\ p.id # NoUser
    /\ p.email # NoUser
    /\ p.session_notification_enabled # "false"

\* the resend.emails.send calls of one request. `sends` tells how the calls end:
\* sends.throws are the roles whose call throws, sends.refused the roles whose
\* call resolves with an error object (resend@4 answers { data, error }); the
\* code awaits the call and discards what it resolves with.
NotificationAttempts(ss, ps, sessionId, status) ==
    LET session == ss[sessionId]
        teacher == ProfileOf(ps, session.teacher_id)
        learner == ProfileOf(ps, session.learner_id)
        toTeacher == IF status = "confirmed" /\ WantsNotification(teacher)
                     THEN {[to |-> teacher.email, role |-> "teacher", kind |-> status]}
                     ELSE {}
        toLearner == IF status \in {"confirmed", "declined"} /\ WantsNotification(learner)
                     THEN {[to |-> learner.email, role |-> "learner", kind |-> status]}
                     ELSE {}
    IN  toTeacher \cup toLearner

\* the e-mails of one request that resend accepted
NotificationEmails(ss, ps, sessionId, status, sends) ==
    {e \in NotificationAttempts(ss, ps, sessionId, status) :
        e.role \notin sends.throws \cup sends.refused}

\* a validation that accepts every status
NotificationErrorAnyStatus(ss, sessionId, status) ==
    IF sessionId = 0 \/ status = "" THEN "Missing sessionId or status"
    ELSE IF sessionId \notin DOMAIN ss THEN "Session not found"
    ELSE ""
\* the validation of the request body; "" when the request is served
NotificationError(ss, sessionId, status) ==
    IF sessionId = 0 \/ status = "" THEN "Missing sessionId or status"
    ELSE IF status \notin {"confirmed", "declined"}
         THEN "Status must be either confirmed or declined"
    ELSE IF sessionId \notin DOMAIN ss THEN "Session not found"
    ELSE ""

\* serve(): the response, with the e-mails sent while serving
SessionNotification(ss, ps, sessionId, status, sends) ==
    LET err == NotificationError(ss, sessionId, status) IN
    IF err # ""
    THEN [http |-> 500, error |-> err, emailsSent |-> 0, emails |-> {},
          sessionId |-> sessionId, status |-> status]
    ELSE LET sent == NotificationEmails(ss, ps, sessionId, status, sends)
             counted == {e \in NotificationAttempts(ss, ps, sessionId, status) :
                            e.role \notin sends.throws}
         IN
         [http |-> 200, error |-> "", emailsSent |-> Cardinality(counted), emails |-> sent,
          sessionId |-> sessionId, status |-> status]

\* a request to the send-session-notification endpoint
SendSessionNotification(sessionId, status, sends) ==
    /\ last' = [op |-> "notify",
                response |-> SessionNotification(sessions, profiles, sessionId, status, sends)]
    /\ UNCHANGED db
    /\ UNCHANGED <<schedule, matchList, chat>>

(* --------------------------- Schedule page ----------------------------- *)
\* fetchSessions: the rows RLS shows the user in which the user takes part
FetchedSessions(u, ss) ==
    LET ids == {i \in DOMAIN ss :
                  /\ SessionsOwnPolicy(u, ss[i])
                  /\ (ss[i].teacher_id = u \/ ss[i].learner_id = u)}
    IN  [i \in ids |-> ss[i]]

\* the Schedule page mounted for the signed-in user u: useEffect -> fetchSessions
FetchSessions(u) ==
    /\ u \in users
    /\ schedule' = [user |-> u, sessions |-> FetchedSessions(u, sessions),
                    sessionToReview |-> 0]
    /\ last' = [op |-> "fetch_sessions", user |-> u]
    /\ UNCHANGED db
    /\ UNCHANGED <<matchList, chat>>

\* the buttons SessionCard renders for a session as the page holds it
ButtonShown(local, newStatus) ==
    \/ (local.status = "pending" /\ newStatus \in {"confirmed", "declined"})
    \/ (local.status = "confirmed" /\ newStatus = "completed")

\* UPDATE sessions SET status, meeting_link WHERE id: the table afterwards
\* (RLS hides the row from a user who takes no part in it)
UpdatedSessions(uid, id, newStatus, meetingLink) ==
    IF id \in DOMAIN sessions /\ SessionsOwnPolicy(uid, sessions[id])
    THEN [sessions EXCEPT ![id] = [@ EXCEPT !.status = newStatus,
                                            !.meeting_link = meetingLink]]
    ELSE sessions

\* whether the UPDATE raises an error (the valid_status CHECK on a row it reaches)
UpdateRejected(uid, id, newStatus) ==
    /\ id \in DOMAIN sessions
    /\ SessionsOwnPolicy(uid, sessions[id])
    /\ ~ValidStatus(newStatus)

\* handleStatusUpdate invokes send-session-notification for these
NotifiesOn(newStatus) == newStatus \in {"confirmed", "declined"}

\* Schedule.handleStatusUpdate(sessionId, newStatus); `meeting` is what
\* create-whereby-meeting answers, `sends` how the e-mail sends end
HandleStatusUpdate(id, newStatus, meeting, sends) ==
    LET u == schedule.user IN
    /\ u \in users
    /\ id \in DOMAIN schedule.sessions
    /\ ButtonShown(schedule.sessions[id], newStatus)
    /\ LET local == schedule.sessions[id]
           needsRoom == newStatus = "confirmed" /\ local.meeting_link = NULL
           meetingLink == IF needsRoom THEN RoomUrl ELSE local.meeting_link
       IN
       IF needsRoom /\ meeting = "error"
       THEN /\ last' = [op |-> "status_update", id |-> id, newStatus |-> newStatus,
                        before |-> sessions[id],
                        toast |-> "Failed to create video meeting room",
                        updated |-> FALSE, notification |-> [http |-> 0]]
            /\ UNCHANGED <<sessions, schedule>>
       ELSE IF UpdateRejected(u, id, newStatus)
       THEN /\ last' = [op |-> "status_update", id |-> id, newStatus |-> newStatus,
                        before |-> sessions[id],
                        toast |-> "Failed to update session",
                        updated |-> FALSE, notification |-> [http |-> 0]]
            /\ UNCHANGED <<sessions, schedule>>
       ELSE /\ sessions' = UpdatedSessions(u, id, newStatus, meetingLink)
            /\ schedule' = [user |-> u,
                            sessions |-> FetchedSessions(u, sessions'),
                            sessionToReview |->
                                IF newStatus = "completed" THEN id
                                ELSE schedule.sessionToReview]
            /\ last' = [op |-> "status_update", id |-> id, newStatus |-> newStatus,
                        toast |-> "Session updated",
                        updated |-> TRUE,
                        notification |->
                            IF NotifiesOn(newStatus)
                            THEN SessionNotification(sessions', profiles, id, newStatus, sends)
                            ELSE [http |-> 0]]
    /\ UNCHANGED <<users, profiles, reviews, conversations, messages,
                   device_tokens, matchList, chat>>

\* a client's own UPDATE sessions SET status WHERE id through the database API
DbUpdateSession(uid, id, newStatus) ==
    /\ Requester(uid)
    /\ id \in DOMAIN sessions
    /\ IF UpdateRejected(uid, id, newStatus)
       THEN /\ sessions' = sessions
            /\ last' = [op |-> "update_session", uid |-> uid, id |-> id,
                        newStatus |-> newStatus, before |-> sessions[id],
                        updated |-> FALSE]
       ELSE /\ sessions' = UpdatedSessions(uid, id, newStatus, sessions[id].meeting_link)
            /\ last' = [op |-> "update_session", uid |-> uid, id |-> id,
                        newStatus |-> newStatus, before |-> sessions[id],
                        updated |-> sessions' # sessions]
    /\ UNCHANGED <<users, profiles, reviews, conversations, messages,
                   device_tokens, schedule, matchList, chat>>

(* ------------------------------- reviews ------------------------------- *)
MinRating == 1
MaxRating == 5
\* a reviews table without the rating CHECK
ValidRatingUnchecked(rating) == TRUE
\* CHECK (rating >= 1 AND rating <= 5)
ValidRating(rating) == rating >= MinRating /\ rating <= MaxRating

\* RLS on reviews for INSERT: "Users can create reviews for their sessions"
ReviewsInsertPolicy(uid, row) == uid # NoUser /\ uid = row.reviewer_id

\* whether the database accepts INSERT INTO reviews of `row` from `uid`:
\* the policy, the three foreign keys and the rating CHECK
ReviewInsertOk(uid, row) ==
    /\ ReviewsInsertPolicy(uid, row)
    /\ row.session_id \in DOMAIN sessions
    /\ row.reviewer_id \in DOMAIN profiles
    /\ row.reviewee_id \in DOMAIN profiles
    /\ ValidRating(row.rating)

\* a client's own INSERT INTO reviews through the database API
DbInsertReview(uid, row) ==
    /\ Requester(uid)
    /\ IF ReviewInsertOk(uid, row)
       THEN /\ reviews' = reviews \cup {row}
            /\ last' = [op |-> "insert_review", uid |-> uid, row |-> row,
                        count |-> Cardinality(reviews), ok |-> TRUE]
       ELSE /\ reviews' = reviews
            /\ last' = [op |-> "insert_review", uid |-> uid, row |-> row,
                        count |-> Cardinality(reviews), ok |-> FALSE]
    /\ UNCHANGED <<users, profiles, sessions, conversations, messages,
                   device_tokens, schedule, matchList, chat>>

\* reviewSchema: rating is a number from 1 to 5
ReviewSchemaOk(rating) == rating >= MinRating /\ rating <= MaxRating

\* Schedule's ReviewDialog props: the other party of the session to review
RevieweeId(u, session) ==
    IF session.teacher_id = u THEN session.learner_id ELSE session.teacher_id

\* ReviewDialog.handleSubmit in the dialog Schedule opens on a completed session
SubmitReview(rating, created_at) ==
    LET u == schedule.user
        id == schedule.sessionToReview IN
    /\ u \in users
    /\ id \in DOMAIN schedule.sessions
    /\ IF ~ReviewSchemaOk(rating)
       THEN /\ last' = [op |-> "submit_review", user |-> u, rating |-> rating,
                             count |-> Cardinality(reviews),
                        error |-> "rating", inserted |-> FALSE]
            /\ UNCHANGED <<reviews, schedule>>
       ELSE LET row == [session_id |-> id, reviewer_id |-> u,
                        reviewee_id |-> RevieweeId(u, schedule.sessions[id]),
                        rating |-> rating, created_at |-> created_at] IN
            IF ReviewInsertOk(u, row)
            THEN /\ reviews' = reviews \cup {row}
                 /\ schedule' = [schedule EXCEPT !.sessionToReview = 0]
                 /\ last' = [op |-> "submit_review", user |-> u, rating |-> rating,
                             count |-> Cardinality(reviews),
                             error |-> "", inserted |-> TRUE]
            ELSE /\ last' = [op |-> "submit_review", user |-> u, rating |-> rating,
                             count |-> Cardinality(reviews),
                             error |-> "Failed to submit review", inserted |-> FALSE]
                 /\ UNCHANGED <<reviews, schedule>>
    /\ UNCHANGED <<users, profiles, sessions, conversations, messages,
                   device_tokens, matchList, chat>>

(* ----------------------- conversations, messages ----------------------- *)
\* a conversation row is its UNIQUE pair <<participant_1_id, participant_2_id>>
Participants(conv) == {conv[1], conv[2]}

\* RLS on conversations for INSERT (TO authenticated)
ConversationsInsertPolicy(uid, conv) == uid # NoUser /\ uid \in Participants(conv)

\* a client's own INSERT INTO conversations: policy, foreign keys, UNIQUE
DbInsertConversation(uid, conv) ==
    /\ Requester(uid)
    /\ IF /\ ConversationsInsertPolicy(uid, conv)
          /\ Participants(conv) \subseteq users
          /\ conv \notin conversations
       THEN /\ conversations' = conversations \cup {conv}
            /\ last' = [op |-> "insert_conversation", uid |-> uid, ok |-> TRUE]
       ELSE /\ conversations' = conversations
            /\ last' = [op |-> "insert_conversation", uid |-> uid, ok |-> FALSE]
    /\ UNCHANGED <<users, profiles, sessions, reviews, messages,
                   device_tokens, schedule, matchList, chat>>

\* the EXISTS subquery of the messages policies: uid takes part in the conversation
InConversation(uid, conversation_id) ==
    \E c \in conversations : c = conversation_id /\ uid \in Participants(c)

\* RLS on messages for SELECT: "Users can view messages in their conversations"
MessagesSelectPolicy(uid, row) ==
    uid # NoUser /\ InConversation(uid, row.conversation_id)

\* an INSERT policy without the EXISTS subquery on conversations
MessagesInsertPolicySenderOnly(uid, row) == uid # NoUser /\ uid = row.sender_id
\* RLS on messages for INSERT: "Users can create messages in their conversations"
MessagesInsertPolicy(uid, row) ==
    /\ uid # NoUser
    /\ uid = row.sender_id
    /\ InConversation(uid, row.conversation_id)

\* a client's own INSERT INTO messages: policy and foreign keys
DbInsertMessage(uid, row) ==
    /\ Requester(uid)
    /\ Len(messages) < MaxMessages
    /\ IF /\ MessagesInsertPolicy(uid, row)
          /\ row.conversation_id \in conversations
          /\ row.sender_id \in users
       THEN /\ messages' = Append(messages, row)
            /\ last' = [op |-> "insert_message", uid |-> uid, row |-> row, ok |-> TRUE]
       ELSE /\ messages' = messages
            /\ last' = [op |-> "insert_message", uid |-> uid, row |-> row, ok |-> FALSE]
    /\ UNCHANGED <<users, profiles, sessions, reviews, conversations,
                   device_tokens, schedule, matchList, chat>>

\* the rows SELECT * FROM messages shows uid (indices into messages)
VisibleMessages(uid) ==
    {i \in DOMAIN messages : MessagesSelectPolicy(uid, messages[i])}

\* a client's own SELECT * FROM messages
DbSelectMessages(uid) ==
    /\ Requester(uid)
    /\ last' = [op |-> "select_messages", uid |-> uid, rows |-> VisibleMessages(uid)]
    /\ UNCHANGED db
    /\ UNCHANGED <<schedule, matchList, chat>>

(* ------------------------------ ChatDialog ----------------------------- *)
\* the subscription effect returns early on `!open || !conversationId`
Subscribed(c) == c.conversationId # NoConversation

\* fetchMessages: the ids of the conversation's messages RLS shows the user, in order
FetchedMessages(u, conv) ==
    SelectSeq([i \in 1..Len(messages) |-> i],
              LAMBDA i : /\ messages[i].conversation_id = conv
                         /\ MessagesSelectPolicy(u, messages[i]))

\* sendMessage's participant1, participant2
ConversationOf(u, other) == IF u < other THEN <<u, other>> ELSE <<other, u>>

\* the conversation the dialog's subscription filters on
ChannelOf(c) == c.conversationId

\* ChatDialog mounted for user u with otherUserId and conversationId: the
\* Messages page passes the id of a listed conversation, Match and
\* PublicProfile pass null. With an id the effects fetch and subscribe.
OpenChat(u, other, conv) ==
    /\ chat.user = NoUser
    /\ u \in users /\ other \in users /\ u # other
    /\ \/ conv = NoConversation
       \/ conv \in conversations /\ conv = ConversationOf(u, other)
    /\ chat' = [user |-> u, other |-> other, conversationId |-> conv,
                since |-> Len(messages),
                messages |-> IF conv = NoConversation THEN <<>>
                             ELSE FetchedMessages(u, conv)]
    /\ last' = [op |-> "open_chat", user |-> u]
    /\ UNCHANGED db
    /\ UNCHANGED <<schedule, matchList>>

\* ChatDialog.sendMessage with newMessage = text
SendMessage(text) ==
    LET u == chat.user
        pair == ConversationOf(u, chat.other)
        lookup == chat.conversationId = NoConversation
        cur == IF lookup THEN pair ELSE chat.conversationId
        create == lookup /\ pair \notin conversations
        created == /\ ConversationsInsertPolicy(u, pair)
                   /\ Participants(pair) \subseteq users
        row == [conversation_id |-> cur, sender_id |-> u]
    IN
    /\ u \in users
    /\ Len(messages) < MaxMessages
    /\ IF text = ""
       THEN /\ last' = [op |-> "send_message", ok |-> FALSE, id |-> 0, toast |-> ""]
            /\ UNCHANGED <<conversations, messages>>
       ELSE IF create /\ ~created
       THEN /\ last' = [op |-> "send_message", ok |-> FALSE, id |-> 0,
                        toast |-> "Failed to send message"]
            /\ UNCHANGED <<conversations, messages>>
       ELSE /\ conversations' = IF create THEN conversations \cup {pair} ELSE conversations
            /\ IF (create \/ MessagesInsertPolicy(u, row)) /\ cur \in conversations'
               THEN /\ messages' = Append(messages, row)
                    /\ last' = [op |-> "send_message", ok |-> TRUE,
                                id |-> Len(messages) + 1, toast |-> ""]
               ELSE /\ messages' = messages
                    /\ last' = [op |-> "send_message", ok |-> FALSE, id |-> 0,
                                toast |-> "Failed to send message"]
    /\ UNCHANGED <<users, profiles, sessions, reviews, device_tokens,
                   schedule, matchList, chat>>

\* the postgres_changes callback: the next INSERT on messages of the
\* subscribed conversation since the subscription is appended to the list
DeliverChange ==
    /\ chat.user # NoUser
    /\ Subscribed(chat)
    /\ \E i \in DOMAIN messages :
          /\ i > chat.since
          /\ messages[i].conversation_id = ChannelOf(chat)
          /\ \A j \in DOMAIN messages :
                (j > chat.since /\ messages[j].conversation_id = ChannelOf(chat)) => i <= j
          /\ chat' = [chat EXCEPT !.messages = Append(@, i), !.since = i]
          /\ last' = [op |-> "deliver", id |-> i]
    /\ UNCHANGED db
    /\ UNCHANGED <<schedule, matchList>>

(* ---------------------------- device tokens ---------------------------- *)
\* RLS on device_tokens for INSERT
DeviceTokensInsertPolicy(uid, row) == uid # NoUser /\ uid = row.user_id

\* saveDeviceToken(userId, token): upsert on (user_id, token)
SaveDeviceToken(uid, userId, token) ==
    LET row == [user_id |-> userId, token |-> token] IN
    /\ uid \in users
    /\ IF DeviceTokensInsertPolicy(uid, row)
       THEN /\ device_tokens' = device_tokens \cup {row}
            /\ last' = [op |-> "save_device_token", uid |-> uid, ok |-> TRUE]
       ELSE /\ device_tokens' = device_tokens
            /\ last' = [op |-> "save_device_token", uid |-> uid, ok |-> FALSE]
    /\ UNCHANGED <<users, profiles, sessions, reviews, conversations, messages,
                   schedule, matchList, chat>>

(* ---------------------------- user deletion ---------------------------- *)
\* the rows ON DELETE CASCADE removes with auth.users row u:
\*   profiles.id -> auth.users; reviews.reviewer_id, reviewee_id -> profiles;
\*   conversations.participant_n_id -> auth.users; messages.conversation_id ->
\*   conversations, messages.sender_id -> auth.users.
\* sessions.teacher_id, sessions.learner_id and device_tokens.user_id carry no
\* REFERENCES clause, so no cascade reaches those tables.
SessionsAfterDelete(u) == sessions
DeviceTokensAfterDelete(u) == device_tokens

DeleteUser(u) ==
    /\ u \in users
    /\ users' = users \ {u}
    /\ profiles' = [x \in DOMAIN profiles \ {u} |-> profiles[x]]
    /\ reviews' = {r \in reviews : r.reviewer_id # u /\ r.reviewee_id # u}
    /\ conversations' = {c \in conversations : u \notin Participants(c)}
    /\ messages' = SelectSeq(messages,
                       LAMBDA m : m.sender_id # u /\ u \notin Participants(m.conversation_id))
    /\ sessions' = SessionsAfterDelete(u)
    /\ device_tokens' = DeviceTokensAfterDelete(u)
    /\ last' = [op |-> "delete_user", user |-> u]
    /\ UNCHANGED <<schedule, matchList, chat>>

(* ------------------------ send-session-reminder ------------------------ *)
\* startWindow = now + 55 min, endWindow = now + 65 min
WindowStart == 55
WindowEnd == 65

\* a sessions query whose window excludes its end
ReminderSessionsOpenEnd(now) ==
    {i \in DOMAIN sessions :
        /\ sessions[i].status = "confirmed"
        /\ sessions[i].meeting_link # NULL
        /\ sessions[i].scheduled_at >= now + WindowStart
        /\ sessions[i].scheduled_at < now + WindowEnd}
\* the sessions query: confirmed, with a meeting link, starting in the window
ReminderSessions(now) ==
    {i \in DOMAIN sessions :
        /\ sessions[i].status = "confirmed"
        /\ sessions[i].meeting_link # NULL
        /\ sessions[i].scheduled_at >= now + WindowStart
        /\ sessions[i].scheduled_at <= now + WindowEnd}

\* `p?.email && p?.session_reminder_enabled !== false`
WantsReminder(p) ==
    /\ p.id # NoUser
    /\ p.email # NoUser
    /\ p.session_reminder_enabled # "false"

\* the profile the loop fetches for a role of session i
RoleProfile(i, role) ==
    ProfileOf(profiles, IF role = "teacher" THEN sessions[i].teacher_id
                        ELSE sessions[i].learner_id)

\* the resend.emails.send calls of one run, as [session, role, to]
ReminderAttempts(now) ==
    {[session |-> i, role |-> role, to |-> RoleProfile(i, role).email] :
        <<i, role>> \in {x \in ReminderSessions(now) \X {"teacher", "learner"} :
                            WantsReminder(RoleProfile(x[1], x[2]))}}

\* the push notifications of one run that FCM accepted, as [session, role, token];
\* fcm is "ok", "rejects" (FCM answers an error) or "none" (no access token or
\* no project id)
ReminderPushes(now, fcm) ==
    IF fcm # "ok" THEN {}
    ELSE {[session |-> x[1], role |-> x[2], token |-> t.token] :
            <<x, t>> \in {y \in (ReminderSessions(now) \X {"teacher", "learner"})
                                  \X device_tokens :
                            /\ RoleProfile(y[1][1], y[1][2]).id # NoUser
                            /\ y[2].user_id = RoleProfile(y[1][1], y[1][2]).id}}

\* serve(): the response, with the e-mails attempted and those resend accepted;
\* emailsSent++ follows every send that does not throw
SessionReminder(now, sends, fcm) ==
    LET attempted == ReminderAttempts(now)
        sent == {e \in attempted : e.role \notin sends.throws \cup sends.refused}
        counted == {e \in attempted : e.role \notin sends.throws}
    IN  [http |-> 200, now |-> now,
         sessionsFound |-> ReminderSessions(now),
         attempted |-> attempted, emails |-> sent,
         emailsSent |-> Cardinality(counted),
         pushSent |-> Cardinality(ReminderPushes(now, fcm))]

\* a request to the send-session-reminder endpoint at time `now`
SendSessionReminder(now, sends, fcm) ==
    /\ last' = [op |-> "reminder", sends |-> sends,
                response |-> SessionReminder(now, sends, fcm)]
    /\ UNCHANGED db
    /\ UNCHANGED <<schedule, matchList, chat>>

(* -------------------------- send-weekly-digest ------------------------- *)
\* oneWeekAgo.setDate(oneWeekAgo.getDate() - 7), in minutes
Week == 10080

\* the recipient query: completed profile, digest enabled, e-mail not null
DigestUsers ==
    {u \in DOMAIN profiles :
        /\ profiles[u].profile_completed
        /\ profiles[u].email_digest_enabled = "true"
        /\ profiles[u].email # NoUser}

TaughtSessions(u, now) ==
    {i \in DOMAIN sessions :
        /\ sessions[i].teacher_id = u
        /\ sessions[i].status = "completed"
        /\ sessions[i].scheduled_at >= now - Week}

LearnedSessions(u, now) ==
    {i \in DOMAIN sessions :
        /\ sessions[i].learner_id = u
        /\ sessions[i].status = "completed"
        /\ sessions[i].scheduled_at >= now - Week}

UpcomingSessions(u, now) ==
    {i \in DOMAIN sessions :
        /\ (sessions[i].teacher_id = u \/ sessions[i].learner_id = u)
        /\ sessions[i].status = "confirmed"
        /\ sessions[i].scheduled_at >= now}

NewReviews(u, now) ==
    {r \in reviews : r.reviewee_id = u /\ r.created_at >= now - Week}

\* hasActivity
HasActivity(u, now) ==
    \/ Cardinality(TaughtSessions(u, now)) > 0
    \/ Cardinality(LearnedSessions(u, now)) > 0
    \/ Cardinality(NewReviews(u, now)) > 0
    \/ Cardinality(UpcomingSessions(u, now)) > 0

\* the loop over the recipients, lowest id first: the e-mails resend accepted,
\* in order; sends.throws and sends.refused are the users whose
\* resend.emails.send throws or resolves with an error object
RECURSIVE DigestLoop(_, _, _)
DigestLoop(todo, now, sends) ==
    IF todo = {} THEN <<>>
    ELSE LET u == CHOOSE x \in todo : \A y \in todo : x <= y
             rest == DigestLoop(todo \ {u}, now, sends)
         IN  IF \/ profiles[u].email = NoUser
                \/ ~HasActivity(u, now)
                \/ u \in sends.throws \cup sends.refused
             THEN rest
             ELSE <<[to |-> profiles[u].email, user |-> u]>> \o rest

\* serve(): the response, with the e-mails sent; emailsSent++ follows every send
\* that does not throw, errors.push every send that throws
WeeklyDigest(now, sends) ==
    LET sent == DigestLoop(DigestUsers, now, sends)
        attempted == {u \in DigestUsers : HasActivity(u, now)}
    IN
    [http |-> 200, now |-> now, emails |-> sent,
     emailsSent |-> Cardinality(attempted \ sends.throws),
     errors |-> attempted \cap sends.throws]

\* a request to the send-weekly-digest endpoint at time `now`
SendWeeklyDigest(now, sends) ==
    /\ last' = [op |-> "digest", response |-> WeeklyDigest(now, sends)]
    /\ UNCHANGED db
    /\ UNCHANGED <<schedule, matchList, chat>>

(* --------------------------- specifications ---------------------------- *)
\* the accounts of the model, and one more for a user outside a session or chat
Everyone == 1..(NumUsers + 1)
\* the (teach, learn) skill lists a profile form is saved with
SkillForms == {<<{"chess"}, {}>>, <<{"piano"}, {}>>, <<{}, {"chess"}>>, <<{}, {}>>}
\* what create-whereby-meeting may answer, and which e-mail sends may throw
MeetingAnswers == {"room", "error"}
AllDelivered == [throws |-> {}, refused |-> {}]
SendOutcomes ==
    {AllDelivered, [throws |-> {"teacher"}, refused |-> {}],
     [throws |-> {}, refused |-> {"learner"}]}
\* 09:00 on day 0, the time of the sessions clients insert directly
FirstSlotTime == ScheduledAt(0, <<FirstHour, 0>>)
\* a pending session row as a client inserts it
PendingRow(t, l) ==
    [teacher_id |-> t, learner_id |-> l, skill |-> "chess",
     scheduled_at |-> FirstSlotTime, status |-> "pending", meeting_link |-> NULL]

\* booking on the Match page, and the Schedule page's status updates
Next ==
    \/ \E u \in Users : SignUp(u, u, "true")
    \/ \E u \in Users : SaveProfile(u, {"chess"}, {}, TRUE, TRUE, TRUE)
    \/ \E u \in Users : FetchProfiles(u)
    \/ \E u \in Users, t \in Users, date \in Days \cup {NoDate},
          slot \in TimeSlots \cup {NoTime}, skill \in Skills \cup {""} :
          BookSession(u, t, date, slot, skill)
    \/ \E u \in Users : FetchSessions(u)
    \/ \E id \in 1..MaxSessions, st \in Statuses, m \in MeetingAnswers :
          HandleStatusUpdate(id, st, m, AllDelivered)
    \/ \E uid \in Users, id \in 1..MaxSessions, st \in {"cancelled", "declined"} :
          DbUpdateSession(uid, id, st)

Spec == Init /\ [][Next]_vars

\* booking, with profiles that change between the fetch and the booking
BookingNext ==
    \/ \E u \in Users : SignUp(u, u, "true")
    \/ \E u \in Users, f \in SkillForms :
          SaveProfile(u, f[1], f[2], TRUE, TRUE, TRUE)
    \/ \E u \in Users : FetchProfiles(u)
    \/ \E u \in Users, t \in Users, date \in Days \cup {NoDate},
          slot \in TimeSlots \cup {NoTime}, skill \in Skills \cup {""} :
          BookSession(u, t, date, slot, skill)
    \/ \E uid \in Users \cup {NoUser}, l \in Users, st \in {"pending", "declined"} :
          DbInsertSession(uid, [PendingRow(1, l) EXCEPT !.status = st])

SpecBooking == Init /\ [][BookingNext]_vars

\* send-session-notification, called by the Schedule page and by any client
NotifyNext ==
    \/ \E u \in Users, hasEmail \in BOOLEAN :
          SignUp(u, IF hasEmail THEN u ELSE NoUser, "null")
    \/ \E u \in Users, notif \in BOOLEAN :
          SaveProfile(u, {"chess"}, {}, notif, TRUE, TRUE)
    \/ \E t \in Users : DbInsertSession(2, PendingRow(t, 2))
    \/ \E u \in Users : DeleteUser(u)
    \/ \E u \in Users : FetchSessions(u)
    \/ \E id \in 1..MaxSessions, st \in {"confirmed", "declined"},
          sends \in {AllDelivered, [throws |-> {"learner"}, refused |-> {}]} :
          HandleStatusUpdate(id, st, "room", sends)
    \/ \E id \in 0..(MaxSessions + 1), st \in {"", "confirmed", "declined", "completed"},
          sends \in {AllDelivered, [throws |-> {}, refused |-> {"teacher"}]} :
          SendSessionNotification(id, st, sends)

SpecNotify == Init /\ [][NotifyNext]_vars

\* every table, with the deletion of users
CascadeNext ==
    \/ \E u \in Users : SignUp(u, u, "true")
    \/ \E u \in Users : DeleteUser(u)
    \/ \E t \in Users, l \in Users :
          /\ {t, l} \subseteq users
          /\ Len(sessions) < 1
          /\ DbInsertSession(l, PendingRow(t, l))
    \/ \E u \in Users : SaveDeviceToken(u, u, "token")
    \/ \E u \in Users, v \in Users :
          DbInsertReview(u, [session_id |-> 1, reviewer_id |-> u, reviewee_id |-> v,
                             rating |-> MaxRating, created_at |-> FirstSlotTime])
    \/ \E u \in Users : DbInsertConversation(u, <<1, 2>>)
    \/ \E u \in Users :
          Len(messages) < 1
          /\ DbInsertMessage(u, [conversation_id |-> <<1, 2>>, sender_id |-> u])

SpecCascade == Init /\ [][CascadeNext]_vars

\* the times send-session-reminder runs at: 55 - Slack .. 65 + Slack minutes
\* before 09:00 on day 0
ReminderClock ==
    {FirstSlotTime - d : d \in ((WindowStart - Slack)..(WindowStart + Slack))
                              \cup ((WindowEnd - Slack)..(WindowEnd + Slack))}

\* send-session-reminder over sessions of every status
ReminderNext ==
    \/ \E u \in Users, hasEmail \in BOOLEAN :
          SignUp(u, IF hasEmail THEN u ELSE NoUser, "null")
    \/ \E u \in Users, reminder \in BOOLEAN :
          SaveProfile(u, {"chess"}, {}, TRUE, reminder, TRUE)
    \/ \E st \in ValidStatuses, link \in {NULL, RoomUrl} :
          (link = NULL => st \in {"pending", "confirmed"})
          /\ DbInsertSession(2, [PendingRow(1, 2) EXCEPT !.status = st,
                                                        !.meeting_link = link])
    \/ SaveDeviceToken(1, 1, "token")
    \/ \E u \in Users : DeleteUser(u)
    \/ \E now \in ReminderClock, sends \in SendOutcomes, fcm \in {"ok", "none"} :
          SendSessionReminder(now, sends, fcm)

SpecReminder == Init /\ [][ReminderNext]_vars

\* the times send-weekly-digest runs at: 00:00 and 09:00 on day 0, and a week
\* and a week and a minute after each
DigestClock == {0, FirstSlotTime, Week, Week + 1, FirstSlotTime + Week, FirstSlotTime + Week + 1}

\* send-weekly-digest over sessions, reviews and profiles
DigestNext ==
    \/ \E u \in Users, hasEmail \in BOOLEAN :
          SignUp(u, IF hasEmail THEN u ELSE NoUser, "true")
    \/ \E u \in Users, digest \in BOOLEAN :
          SaveProfile(u, {"chess"}, {}, TRUE, TRUE, digest)
    \/ DbInsertSession(2, PendingRow(1, 2))
    \/ FetchSessions(1)
    \/ \E id \in 1..MaxSessions, st \in {"confirmed", "completed"} :
          HandleStatusUpdate(id, st, "room", AllDelivered)
    \/ DbInsertReview(2, [session_id |-> 1, reviewer_id |-> 2, reviewee_id |-> 1,
                          rating |-> MaxRating, created_at |-> 0])
    \/ \E now \in DigestClock, throws \in SUBSET Users, refused \in {{}, {1}} :
          SendWeeklyDigest(now, [throws |-> throws, refused |-> refused])

SpecDigest == Init /\ [][DigestNext]_vars

\* conversations and messages under row-level security
MessagesNext ==
    \/ \E u \in Everyone : SignUp(u, u, "true")
    \/ \E uid \in Everyone \cup {NoUser}, p \in Everyone, q \in Everyone :
          p < q /\ DbInsertConversation(uid, <<p, q>>)
    \/ \E uid \in Everyone \cup {NoUser}, p \in Everyone, q \in Everyone, s \in Everyone :
          p < q /\ DbInsertMessage(uid, [conversation_id |-> <<p, q>>, sender_id |-> s])
    \/ \E uid \in Everyone \cup {NoUser} : DbSelectMessages(uid)

SpecMessages == Init /\ [][MessagesNext]_vars

\* reviews, from the Schedule page's dialog and from any client
ReviewsNext ==
    \/ \E u \in Everyone : SignUp(u, u, "true")
    \/ Len(sessions) < 1 /\ DbInsertSession(2, PendingRow(1, 2))
    \/ \E u \in Everyone : FetchSessions(u)
    \/ \E st \in Statuses : HandleStatusUpdate(1, st, "room", AllDelivered)
    \/ \E rating \in {MinRating - 1, MaxRating, MaxRating + 1} :
          Cardinality(reviews) < MaxReviews /\ SubmitReview(rating, FirstSlotTime)
    \/ \E uid \in Everyone \cup {NoUser}, u \in Everyone, v \in Users,
          rating \in {MinRating - 1, MinRating, MaxRating + 1} :
          /\ Cardinality(reviews) < MaxReviews
          /\ DbInsertReview(uid, [session_id |-> 1, reviewer_id |-> u, reviewee_id |-> v,
                                  rating |-> rating, created_at |-> FirstSlotTime])

SpecReviews == Init /\ [][ReviewsNext]_vars

\* the Match page's list, and profiles read under row-level security
MatchNext ==
    \/ \E u \in Everyone : SignUp(u, u, "true")
    \/ \E u \in Everyone, f \in SkillForms :
          SaveProfile(u, f[1], f[2], TRUE, TRUE, TRUE)
    \/ \E u \in Everyone : FetchProfiles(u)
    \/ \E uid \in Everyone \cup {NoUser} : DbSelectProfiles(uid)

SpecMatch == Init /\ [][MatchNext]_vars

\* one ChatDialog, with messages that other clients insert
ChatNext ==
    \/ \E u \in Users : SignUp(u, u, "true")
    \/ \E uid \in Users : DbInsertConversation(uid, <<1, 2>>)
    \/ \E uid \in Users :
          DbInsertMessage(uid, [conversation_id |-> <<1, 2>>, sender_id |-> uid])
    \/ \E u \in Users, other \in Users, conv \in {NoConversation, <<1, 2>>} :
          OpenChat(u, other, conv)
    \/ \E text \in {"", "hi"} : SendMessage(text)
    \/ DeliverChange

\* the change feed delivers every event to a subscribed dialog
SpecChat == Init /\ [][ChatNext]_vars /\ WF_vars(DeliverChange)

(* ------------------------------ dashboard ------------------------------ *)
\* In the dashboard specification the clock counts calendar months: a
\* timestamp t lies in month t % 12 of year t \div 12.
MonthsPerYear == 12
\* the number of months the series is built for: for (let i = 5; i >= 0; i--)
SeriesLength == 6
\* toLocaleDateString('en-US', { month: 'short' }): the month's name, no year
MonthKey(t) == t % MonthsPerYear
\* the sessions fetchData reads for user u: teacher_id.eq.u or learner_id.eq.u
DashboardSessions(ss, u) ==
    {id \in DOMAIN ss : ss[id].teacher_id = u \/ ss[id].learner_id = u}
\* calculateStats: completed = sessionsData.filter(status === "completed")
Completed(ss, u) == {id \in DashboardSessions(ss, u) : ss[id].status = "completed"}
\* monthsMap after the first loop: the keys in insertion order, oldest first
\* (new Date(year, month - i, 1) for i = 5 .. 0)
MonthsMapKeys(now) == [n \in 1..SeriesLength |-> MonthKey(now - SeriesLength + n)]
\* calculateStats: sessionsOverTime; every completed session is counted under
\* the key of its month when monthsMap has that key
SessionsOverTime(ss, u, now) ==
    [n \in 1..SeriesLength |->
        LET key == MonthsMapKeys(now)[n]
            hit == {id \in Completed(ss, u) : MonthKey(ss[id].scheduled_at) = key}
        IN  [month |-> key,
             taught |-> Cardinality({id \in hit : ss[id].teacher_id = u}),
             learned |-> Cardinality({id \in hit : ss[id].teacher_id # u})]]

\* Dashboard for the signed-in user u, loaded in month now
CalculateStats(u, now) ==
    /\ u \in users
    /\ last' = [op |-> "dashboard", user |-> u, now |-> now,
                sessionsOverTime |-> SessionsOverTime(sessions, u, now)]
    /\ UNCHANGED <<db, schedule, matchList, chat>>

\* the months the dashboard is loaded in
DashboardClock == {MonthsPerYear, MonthsPerYear + Slack}
\* the months sessions are scheduled in: a year before the first clock value,
\* the month before its series, the oldest month of the series, and two inside
DashboardMonths ==
    {0, MonthsPerYear - SeriesLength, MonthsPerYear - SeriesLength + 1,
     MonthsPerYear - 1, MonthsPerYear}
DashboardRows ==
    {[teacher_id |-> t, learner_id |-> l, skill |-> "chess", scheduled_at |-> m,
      status |-> st, meeting_link |-> NULL] :
        t \in Users, l \in Users, m \in DashboardMonths,
        st \in {"confirmed", "completed"}}
\* signed-up users with sessions booked and completed in earlier months
InitDashboard ==
    /\ users = Users
    /\ profiles = [u \in Users |-> NewProfile(u, u, "true")]
    /\ \E n \in 0..MaxSessions :
          sessions \in [1..n -> {r \in DashboardRows : r.teacher_id # r.learner_id}]
    /\ reviews = {}
    /\ conversations = {}
    /\ messages = <<>>
    /\ device_tokens = {}
    /\ schedule = [user |-> NoUser, sessions |-> EmptyMap, sessionToReview |-> 0]
    /\ matchList = [user |-> NoUser, profiles |-> EmptyMap]
    /\ chat = [user |-> NoUser, other |-> NoUser, conversationId |-> NoConversation,
               since |-> 0, messages |-> <<>>]
    /\ last = [op |-> "init"]

DashboardNext ==
    \E u \in Users, now \in DashboardClock : CalculateStats(u, now)

SpecDashboard == InitDashboard /\ [][DashboardNext]_vars

(* ----------------------------- leaderboard ----------------------------- *)
\* RLS on reviews for SELECT: "Users can view reviews for public profiles"
ReviewsSelectPolicy(uid, row) ==
    /\ uid # NoUser
    /\ \/ \E q \in DOMAIN profiles :
             q = row.reviewee_id /\ profiles[q].profile_completed
       \/ uid = row.reviewer_id

RECURSIVE SumRatings(_)
\* teacherReviews.reduce((sum, r) => sum + r.rating, 0)
SumRatings(rs) ==
    IF rs = {} THEN 0
    ELSE LET r == CHOOSE x \in rs : TRUE IN r.rating + SumRatings(rs \ {r})

Min(a, b) == IF a < b THEN a ELSE b

\* a quotient num / den kept exact, den > 0
Quotient(num, den) == [num |-> num, den |-> den]

\* avgRating * 10 + Math.min(sessionsCount * 2, 30) + Math.min(n * 5, 20),
\* for avgRating = sum / n when n > 0 and 0 otherwise
SatisfactionScore(sum, n, sessionsCount) ==
    LET den == IF n > 0 THEN n ELSE 1
    IN  Quotient(sum * 10 + den * (Min(sessionsCount * 2, 30) + Min(n * 5, 20)), den)

\* fetchLeaderboard for the client uid: the three selects, under row-level
\* security, and the entry of every profile with a session or a review
LeaderboardEntries(uid) ==
    LET fetchedSessions == {id \in DOMAIN sessions :
                              /\ SessionsOwnPolicy(uid, sessions[id])
                              /\ sessions[id].status = "completed"}
        fetchedReviews == {r \in reviews : ReviewsSelectPolicy(uid, r)}
        fetchedProfiles == {q \in DOMAIN profiles :
                              /\ ProfilesSelectPolicy(uid, profiles[q])
                              /\ profiles[q].profile_completed}
        sessionsCount(q) ==
            Cardinality({id \in fetchedSessions : sessions[id].teacher_id = q})
        teacherReviews(q) == {r \in fetchedReviews : r.reviewee_id = q}
        n(q) == Cardinality(teacherReviews(q))
    IN  [q \in {x \in fetchedProfiles : sessionsCount(x) > 0 \/ n(x) > 0} |->
            [id |-> q,
             total_sessions |-> sessionsCount(q),
             average_rating |-> Quotient(SumRatings(teacherReviews(q)),
                                         IF n(q) > 0 THEN n(q) ELSE 1),
             total_reviews |-> n(q),
             satisfaction_score |->
                 SatisfactionScore(SumRatings(teacherReviews(q)), n(q),
                                   sessionsCount(q))]]

\* the Leaderboard page, loaded by the signed-in user uid
FetchLeaderboard(uid) ==
    /\ uid \in users
    /\ last' = [op |-> "leaderboard", uid |-> uid, entries |-> LeaderboardEntries(uid)]
    /\ UNCHANGED <<db, schedule, matchList, chat>>

\* teacher 1 and learner 2 hold a session and review it; anyone signed in
\* loads the leaderboard
LeaderboardNext ==
    \/ \E u \in Everyone : SignUp(u, u, "true")
    \/ \E u \in Users : SaveProfile(u, {"chess"}, {}, TRUE, TRUE, TRUE)
    \/ \E l \in Users \ {1} :
          Len(sessions) < MaxSessions /\ DbInsertSession(l, PendingRow(1, l))
    \/ \E uid \in Users, id \in 1..MaxSessions : DbUpdateSession(uid, id, "completed")
    \/ \E u \in Everyone, rating \in {MinRating, MaxRating} :
          /\ Cardinality(reviews) < MaxReviews
          /\ DbInsertReview(u, [session_id |-> 1, reviewer_id |-> u, reviewee_id |-> 1,
                                rating |-> rating, created_at |-> FirstSlotTime])
    \/ \E uid \in Everyone : FetchLeaderboard(uid)

SpecLeaderboard == Init /\ [][LeaderboardNext]_vars

(* --------------------------- Match: filtering -------------------------- *)
\* In the filter specification a text is the sequence of its characters and
\* matchList.profiles is the array of rows the page holds, in fetch order.
MaxFetched == 2
\* a null text column, and a null text[] column; no character is NULL
NoText == <<NULL>>
NoList == <<NoText>>
\* String.prototype.toLowerCase, on the letters in use
LowerChar(c) == IF c = "A" THEN "a" ELSE IF c = "B" THEN "b" ELSE c
\* the search compared as typed, without toLowerCase
LowerAsTyped(text) == text
Lower(text) == [i \in DOMAIN text |-> LowerChar(text[i])]
\* String.prototype.includes
Includes(text, part) ==
    \E i \in 0..(Len(text) - Len(part)) : SubSeq(text, i + 1, i + Len(part)) = part
\* profile.full_name?.toLowerCase().includes(searchQuery.toLowerCase()), and the
\* same for bio: undefined, so falsy, on a null column
TextMatches(text, searchQuery) ==
    text # NoText /\ Includes(Lower(text), Lower(searchQuery))
\* profile.skills_to_teach || []
OrEmpty(list) == IF list = NoList THEN <<>> ELSE list
\* allSkills.some(skill => skill.toLowerCase().includes(skillFilter.toLowerCase()))
SkillMatches(profile, skillFilter) ==
    LET allSkills == OrEmpty(profile.skills_to_teach) \o OrEmpty(profile.skills_to_learn)
    IN  \E k \in DOMAIN allSkills : Includes(Lower(allSkills[k]), Lower(skillFilter))
\* Match.filterProfiles: the two filters, each applied when its input is not ''
FilteredProfiles(list, searchQuery, skillFilter) ==
    LET bySearch(profile) == \/ TextMatches(profile.full_name, searchQuery)
                             \/ TextMatches(profile.bio, searchQuery)
        bySkill(profile) == SkillMatches(profile, skillFilter)
        searched == IF searchQuery # <<>> THEN SelectSeq(list, bySearch) ELSE list
    IN  IF skillFilter # <<>> THEN SelectSeq(searched, bySkill) ELSE searched

\* useEffect -> filterProfiles, after the search box or the skill box changed
FilterProfiles(searchQuery, skillFilter) ==
    /\ matchList.user \in users
    /\ last' = [op |-> "filter", searchQuery |-> searchQuery,
                skillFilter |-> skillFilter,
                filtered |-> FilteredProfiles(matchList.profiles, searchQuery,
                                              skillFilter)]
    /\ UNCHANGED <<db, schedule, matchList, chat>>

\* the texts of the fetched rows and of the two input boxes
FullNames == {NoText, <<>>, <<"A", "b">>, <<"b">>}
Bios == {NoText, <<"a">>}
TeachLists == {NoList, <<>>, << <<"A">> >>, << <<"b">>, <<"B", "a">> >>}
LearnLists == {NoList, << <<"a", "b">> >>}
Queries == {<<>>, <<"a">>, <<"B">>, <<"a", "B">>, <<"b", "a">>}
FetchedRows(id) ==
    {[id |-> id, full_name |-> n, bio |-> b, skills_to_teach |-> t,
      skills_to_learn |-> l] :
        n \in FullNames, b \in Bios, t \in TeachLists, l \in LearnLists}
\* the Match page of user 1 after fetchProfiles answered with up to MaxFetched
\* rows of other users
InitFilter ==
    /\ users = 1..(MaxFetched + 1)
    /\ profiles = [u \in 1..(MaxFetched + 1) |-> NewProfile(u, u, "true")]
    /\ sessions = <<>>
    /\ reviews = {}
    /\ conversations = {}
    /\ messages = <<>>
    /\ device_tokens = {}
    /\ schedule = [user |-> NoUser, sessions |-> EmptyMap, sessionToReview |-> 0]
    /\ \E n \in 0..MaxFetched :
          \E list \in [1..n -> UNION {FetchedRows(id) : id \in 2..(MaxFetched + 1)}] :
             /\ \A i \in 1..n : list[i].id = i + 1
             /\ matchList = [user |-> 1, profiles |-> list]
    /\ chat = [user |-> NoUser, other |-> NoUser, conversationId |-> NoConversation,
               since |-> 0, messages |-> <<>>]
    /\ last = [op |-> "init"]

FilterNext ==
    \E searchQuery \in Queries, skillFilter \in Queries :
        FilterProfiles(searchQuery, skillFilter)

SpecFilter == InitFilter /\ [][FilterNext]_vars

(* ------------------------------ properties ----------------------------- *)
\* C1: every stored session row has a status among pending, confirmed,
\* cancelled and completed, and a status update that writes any other value
\* is refused and leaves the row as it was.
C1_StatusEnum ==
    /\ \A i \in DOMAIN sessions :
          sessions[i].status \in {"pending", "confirmed", "cancelled", "completed"}
    /\ (/\ last.op \in {"status_update", "update_session"}
        /\ last.newStatus \notin {"pending", "confirmed", "cancelled", "completed"})
       => (~last.updated /\ sessions[last.id] = last.before)

\* the Schedule page's Decline has just been refused on a pending session
C1_DeclineRefused ==
    /\ last.op = "status_update"
    /\ last.newStatus = "declined"
    /\ ~last.updated
    /\ last.toast = "Failed to update session"
    /\ sessions[last.id].status = "pending"

\* C2: when a participant clicks Decline on a pending session the update
\* succeeds, the session leaves pending, send-session-notification is invoked
\* with 'declined', and a learner with notifications enabled gets the e-mail.
C2_DeclineNotifies ==
    (last.op = "status_update" /\ last.newStatus = "declined")
    => /\ last.updated
       /\ sessions[last.id].status # "pending"
       /\ last.notification.http = 200
       /\ last.notification.status = "declined"
       /\ LET learner == ProfileOf(profiles, sessions[last.id].learner_id) IN
          (learner.id # NoUser /\ learner.email # NoUser
             /\ learner.session_notification_enabled # "false")
          => \E e \in last.notification.emails :
                e.to = learner.email /\ e.kind = "declined"

\* C3: after a user is deleted no profile, session, review, conversation,
\* message or device token refers to that user, and in every state each
\* session's teacher_id and learner_id and each device token's user_id is an
\* existing user.
C3_CascadeToEveryTable ==
    /\ \A i \in DOMAIN sessions :
          sessions[i].teacher_id \in users /\ sessions[i].learner_id \in users
    /\ \A t \in device_tokens : t.user_id \in users
    /\ last.op = "delete_user"
       => /\ last.user \notin DOMAIN profiles
          /\ \A r \in reviews : last.user \notin {r.reviewer_id, r.reviewee_id}
          /\ \A c \in conversations : last.user \notin {c[1], c[2]}
          /\ \A i \in DOMAIN messages :
                /\ messages[i].sender_id # last.user
                /\ last.user \notin {messages[i].conversation_id[1],
                                     messages[i].conversation_id[2]}

\* C4: send-session-notification e-mails only the teacher or the learner of
\* the named session (for 'declined' only the learner), and only a user whose
\* e-mail is not null and whose session_notification_enabled is not false.
C4_NotificationRecipients ==
    LET r == IF last.op = "notify" THEN last.response
             ELSE IF last.op = "status_update" THEN last.notification
             ELSE [http |-> 0] IN
    r.http = 200 =>
        \A e \in r.emails :
            /\ e.to # NoUser
            /\ \E p \in DOMAIN profiles :
                  /\ profiles[p].email = e.to
                  /\ p \in {sessions[r.sessionId].teacher_id,
                            sessions[r.sessionId].learner_id}
                  /\ r.status = "declined" => p = sessions[r.sessionId].learner_id
                  /\ profiles[p].session_notification_enabled # "false"

\* a confirmation went to the learner only, the teacher having an e-mail
\* address and the Session Confirmations switch off
C4_TeacherOptedOut ==
    /\ last.op = "notify"
    /\ last.response.http = 200
    /\ last.response.status = "confirmed"
    /\ LET s == sessions[last.response.sessionId] IN
       /\ s.teacher_id # s.learner_id
       /\ s.teacher_id \in DOMAIN profiles
       /\ profiles[s.teacher_id].email # NoUser
       /\ profiles[s.teacher_id].session_notification_enabled = "false"
       /\ s.learner_id \in DOMAIN profiles
       /\ last.response.emails =
            {[to |-> profiles[s.learner_id].email, role |-> "learner",
              kind |-> "confirmed"]}

\* C5: a run of send-session-reminder selects exactly the sessions that are
\* confirmed, have a meeting link and start 55 to 65 minutes after the run
\* (bounds included), and every e-mail of the run is for one of them.
C5_ReminderSelection ==
    last.op = "reminder" =>
        LET r == last.response
            due == {i \in DOMAIN sessions :
                       /\ sessions[i].status = "confirmed"
                       /\ sessions[i].meeting_link # "null"
                       /\ sessions[i].scheduled_at - r.now \in 55..65}
        IN  /\ r.sessionsFound = due
            /\ \A e \in r.attempted \cup r.emails : e.session \in due

\* a run 65 minutes before a confirmed session reminded of it and left out
\* a session that is not confirmed
C5_WindowEndReminded ==
    /\ last.op = "reminder"
    /\ \E e \in last.response.emails :
          sessions[e.session].scheduled_at - last.response.now = 65
    /\ \E i \in DOMAIN sessions :
          sessions[i].status # "confirmed" /\ i \notin last.response.sessionsFound

\* C6: for each selected session the reminder goes to the teacher and to the
\* learner exactly when that user has an e-mail and session_reminder_enabled
\* is not false; a send that fails leaves the other send alone, and
\* emailsSent counts only the e-mails sent without error.
C6_ReminderEmails ==
    last.op = "reminder" =>
        LET r == last.response
            uid(i, role) == IF role = "teacher" THEN sessions[i].teacher_id
                            ELSE sessions[i].learner_id
            wants(i, role) ==
                /\ uid(i, role) \in DOMAIN profiles
                /\ profiles[uid(i, role)].email # NoUser
                /\ profiles[uid(i, role)].session_reminder_enabled # "false"
            failed == last.sends.throws \cup last.sends.refused
            pairs == r.sessionsFound \X {"teacher", "learner"}
        IN  /\ \A x \in pairs :
                  /\ (\E e \in r.attempted : e.session = x[1] /\ e.role = x[2])
                        <=> wants(x[1], x[2])
                  /\ (\E e \in r.emails : e.session = x[1] /\ e.role = x[2])
                        <=> (wants(x[1], x[2]) /\ x[2] \notin failed)
            /\ \A e \in r.attempted : e.to = profiles[uid(e.session, e.role)].email
            /\ r.emailsSent = Cardinality(r.emails)

\* C7: a run of send-weekly-digest e-mails a user at most once, and only a
\* user whose profile is completed, whose email_digest_enabled is true,
\* whose e-mail is not null and who has activity: a completed session taught
\* or learned or a review received in the past 7 days, or a confirmed session
\* still to come.
C7_DigestRecipients ==
    last.op = "digest" =>
        LET r == last.response
            inPastWeek(t) == t >= r.now - 10080 /\ t <= r.now
            active(u) ==
                \/ \E i \in DOMAIN sessions :
                      /\ u \in {sessions[i].teacher_id, sessions[i].learner_id}
                      /\ sessions[i].status = "completed"
                      /\ inPastWeek(sessions[i].scheduled_at)
                \/ \E v \in reviews : v.reviewee_id = u /\ inPastWeek(v.created_at)
                \/ \E i \in DOMAIN sessions :
                      /\ u \in {sessions[i].teacher_id, sessions[i].learner_id}
                      /\ sessions[i].status = "confirmed"
                      /\ sessions[i].scheduled_at >= r.now
        IN  /\ \A k \in DOMAIN r.emails :
                  LET u == r.emails[k].user IN
                  /\ u \in DOMAIN profiles
                  /\ profiles[u].profile_completed
                  /\ profiles[u].email_digest_enabled = "true"
                  /\ profiles[u].email # NoUser
                  /\ r.emails[k].to = profiles[u].email
                  /\ active(u)
            /\ \A j \in DOMAIN r.emails, k \in DOMAIN r.emails :
                  r.emails[j].user = r.emails[k].user => j = k

\* C8: a message is inserted only by a signed-in user who is the row's
\* sender_id and one of the two participants of its conversation, and a
\* SELECT shows a message only to the two participants of its conversation.
C8_MessagesRls ==
    /\ (last.op = "insert_message" /\ last.ok)
       => /\ last.uid # NoUser
          /\ last.uid = last.row.sender_id
          /\ last.uid \in {last.row.conversation_id[1], last.row.conversation_id[2]}
    /\ last.op = "select_messages"
       => \A i \in last.rows :
             /\ last.uid # NoUser
             /\ last.uid \in {messages[i].conversation_id[1],
                              messages[i].conversation_id[2]}

\* a user outside an existing conversation tried to insert a message of it
\* under the user's own sender_id and was refused
C8_ThirdUserRefused ==
    /\ last.op = "insert_message"
    /\ ~last.ok
    /\ last.uid \in users
    /\ last.uid = last.row.sender_id
    /\ last.row.conversation_id \in conversations
    /\ last.uid \notin {last.row.conversation_id[1], last.row.conversation_id[2]}

\* C9: a review is inserted only by a user who took part in the reviewed
\* session, as its teacher or its learner, with reviewer_id equal to that user.
C9_ReviewerTookPart ==
    (last.op \in {"insert_review"} /\ last.ok)
    => /\ last.uid = last.row.reviewer_id
       /\ last.uid \in {sessions[last.row.session_id].teacher_id,
                        sessions[last.row.session_id].learner_id}

\* C10: a session booked in BookSessionDialog is stored pending, with the
\* booking user as learner, the chosen teacher as teacher and a skill from
\* the teacher's skills_to_teach as the Match page shows them; nothing is
\* inserted when date, time or skill is missing; and no user inserts a
\* session whose learner_id is another user.
C10_BookedSession ==
    /\ last.op = "book"
       => /\ (last.date = -1 \/ last.slot = <<>> \/ last.skill = "")
             => (~last.inserted /\ Len(sessions) = last.count)
          /\ last.inserted
             => /\ Len(sessions) = last.count + 1
                /\ LET row == sessions[Len(sessions)] IN
                   /\ row.status = "pending"
                   /\ row.learner_id = last.user
                   /\ row.teacher_id = last.teacher
                   /\ row.skill = last.skill
                   /\ row.skill \in matchList.profiles[last.teacher].skills_to_teach
    /\ (last.op = "insert_session" /\ last.uid # last.row.learner_id)
       => (~last.ok /\ Len(sessions) = last.count)

\* a booking with every field filled in has just been stored
C10_Booked ==
    /\ last.op = "book"
    /\ last.inserted
    /\ last.toast = "Session requested successfully!"
    /\ sessions[Len(sessions)].learner_id = matchList.user

\* C11: the list the Match page fetches for user u holds exactly the completed
\* profiles other than u's own, and a profile that is not completed is read
\* by its owner only.
C11_MatchList ==
    /\ last.op = "fetch_profiles"
       => DOMAIN matchList.profiles =
             {p \in DOMAIN profiles : profiles[p].profile_completed /\ p # last.user}
    /\ last.op = "select_profiles"
       => \A p \in last.rows : profiles[p].profile_completed \/ p = last.uid

\* the Match page has fetched a list with a completed profile in it while
\* another user's profile is not completed
C11_IncompleteHidden ==
    /\ last.op = "fetch_profiles"
    /\ matchList.profiles # EmptyMap
    /\ \E p \in DOMAIN profiles :
          p # last.user /\ ~profiles[p].profile_completed

\* C12: after sendMessage succeeds in an open ChatDialog the sent message
\* eventually appears in the dialog's message list, whether the dialog was
\* opened on a conversation or with conversationId null.
C12_SentMessageAppears ==
    \A k \in 1..MaxMessages :
        (last.op = "send_message" /\ last.ok /\ last.id = k)
        ~> (\E n \in DOMAIN chat.messages : chat.messages[n] = k)

\* C13: every stored review has a rating from 1 to 5; ReviewDialog submitted
\* with rating 0 or with a rating above 5 reports an error on the rating and
\* inserts nothing, and the database refuses a row whose rating is outside 1..5.
C13_RatingRange ==
    /\ \A r \in reviews : r.rating \in 1..5
    /\ (last.op = "submit_review" /\ last.rating \notin 1..5)
       => /\ ~last.inserted
          /\ last.error = "rating"
          /\ Cardinality(reviews) = last.count
    /\ (last.op = "insert_review" /\ last.row.rating \notin 1..5)
       => (~last.ok /\ Cardinality(reviews) = last.count)

\* ReviewDialog was submitted without a selected rating on a completed session
C13_NoRatingSelected ==
    /\ last.op = "submit_review"
    /\ last.rating = 0
    /\ last.error = "rating"
    /\ schedule.sessionToReview \in DOMAIN sessions
    /\ sessions[schedule.sessionToReview].status = "completed"

\* C14: the Sessions Over Time series has one entry for each of the last 6
\* calendar months, oldest first, and each entry counts exactly the user's
\* completed sessions scheduled in that month, as taught when the user is the
\* teacher and otherwise as learned; a session before the range is not counted.
C14_SessionsOverTime ==
    last.op = "dashboard" =>
        /\ DOMAIN last.sessionsOverTime = 1..6
        /\ \A n \in 1..6 :
              LET m == last.now - 6 + n
                  own == {id \in DOMAIN sessions :
                            /\ last.user \in {sessions[id].teacher_id,
                                               sessions[id].learner_id}
                            /\ sessions[id].status = "completed"
                            /\ sessions[id].scheduled_at = m}
                  e == last.sessionsOverTime[n]
              IN  /\ e.month = m % 12
                  /\ e.taught = Cardinality({id \in own :
                                    sessions[id].teacher_id = last.user})
                  /\ e.learned = Cardinality({id \in own :
                                    sessions[id].teacher_id # last.user})

\* C15: every listed entry's satisfaction score is avgRating*10 +
\* min(2*sessions, 30) + min(5*reviews, 20), greater than 0 and at most 100,
\* and a completed profile is listed exactly when it has at least one completed
\* session as teacher or at least one received review.
C15_Leaderboard ==
    last.op = "leaderboard" =>
        /\ \A q \in DOMAIN last.entries :
              LET e == last.entries[q]
                  score == e.satisfaction_score
                  capped == (IF 2 * e.total_sessions < 30
                             THEN 2 * e.total_sessions ELSE 30)
                            + (IF 5 * e.total_reviews < 20
                               THEN 5 * e.total_reviews ELSE 20)
              IN  /\ score.num * e.average_rating.den
                        = score.den * (e.average_rating.num * 10
                                       + e.average_rating.den * capped)
                  /\ score.num > 0
                  /\ score.num <= 100 * score.den
        /\ \A q \in DOMAIN profiles :
              profiles[q].profile_completed =>
                 (q \in DOMAIN last.entries
                  <=> \/ \E id \in DOMAIN sessions :
                           /\ sessions[id].teacher_id = q
                           /\ sessions[id].status = "completed"
                     \/ \E r \in reviews : r.reviewee_id = q)

\* C16: filterProfiles yields exactly the fetched profiles whose full_name or
\* bio contains the search query, letters compared without case, and of which
\* a skill to teach or to learn contains the skill filter likewise; an empty
\* query or an empty filter restricts nothing; the result is a sub-list of the
\* fetched profiles in their order; a profile with null name and null bio
\* never matches a non-empty query.
C16_FilterProfiles ==
    last.op = "filter" =>
        LET list == matchList.profiles
            out == last.filtered
            same(a, b) == a = b \/ <<a, b>> \in {<<"a", "A">>, <<"A", "a">>,
                                                 <<"b", "B">>, <<"B", "b">>}
            has(text, part) ==
                \E i \in 0..(Len(text) - Len(part)) :
                    \A k \in 1..Len(part) : same(text[i + k], part[k])
            named(row) == \/ row.full_name # <<"null">>
                             /\ has(row.full_name, last.searchQuery)
                          \/ row.bio # <<"null">> /\ has(row.bio, last.searchQuery)
            lists(row) == {x \in {row.skills_to_teach, row.skills_to_learn} :
                              x # << <<"null">> >>}
            skilled(row) == \E x \in lists(row) : \E k \in DOMAIN x :
                               has(x[k], last.skillFilter)
            keeps(row) == /\ last.searchQuery = <<>> \/ named(row)
                          /\ last.skillFilter = <<>> \/ skilled(row)
        IN  /\ \A i \in DOMAIN list :
                  keeps(list[i]) <=> \E k \in DOMAIN out : out[k] = list[i]
            /\ \E f \in [DOMAIN out -> DOMAIN list] :
                  /\ \A k \in DOMAIN out : out[k] = list[f[k]]
                  /\ \A j, k \in DOMAIN out : j < k => f[j] < f[k]
            /\ \A k \in DOMAIN out :
                  (out[k].full_name = <<"null">> /\ out[k].bio = <<"null">>)
                  => last.searchQuery = <<>>

\* a query in lower case found a name in upper case, and left out a profile
\* with neither name nor bio
C16_FoundIgnoringCase ==
    /\ last.op = "filter"
    /\ last.searchQuery = <<"a">>
    /\ last.skillFilter = <<"B">>
    /\ \E k \in DOMAIN last.filtered :
          /\ last.filtered[k].full_name = <<"A", "b">>
          /\ last.filtered[k].bio = <<"null">>
    /\ \E i \in DOMAIN matchList.profiles :
          /\ matchList.profiles[i].full_name = <<"null">>
          /\ matchList.profiles[i].bio = <<"null">>
    /\ Len(last.filtered) < Len(matchList.profiles)

\* C17: a request to send-session-notification without sessionId or status,
\* with a status other than confirmed and declined, or with a sessionId that
\* names no session is answered with HTTP 500 and an error message, and no
\* e-mail is sent for it.
C17_BadRequestRefused ==
    (/\ last.op = "notify"
     /\ \/ last.response.sessionId = 0
        \/ last.response.status = ""
        \/ last.response.status \notin {"confirmed", "declined"}
        \/ last.response.sessionId \notin DOMAIN sessions)
    => /\ last.response.http = 500
       /\ last.response.error # ""
       /\ last.response.emails = {}
       /\ last.response.emailsSent = 0

\* a request named a session that does not exist while another session, whose
\* teacher and learner take notifications, does
C17_UnknownSession ==
    /\ last.op = "notify"
    /\ last.response.status = "confirmed"
    /\ last.response.sessionId = Len(sessions) + 1
    /\ last.response.error = "Session not found"
    /\ \E id \in DOMAIN sessions :
          NotificationAttempts(sessions, profiles, id, "confirmed") # {}

====
